---------------------------- MODULE Spec2Model ----------------------------
(***************************************************************************)
(* Order lifecycle engine of the POS backend (app/services/order_service,  *)
(* app/repositories/order_repo, app/repositories/table_repo, app/db/redis).*)
(*                                                                         *)
(* Every service coroutine is split at its awaits: one action per store or *)
(* lock round trip, so that requests interleave exactly where the event    *)
(* loop can switch between them.  Order ids are 1, 2, ... in creation      *)
(* order; None is NoOrder for ids and "None" for other fields.  Money is an *)
(* integer number of thousandths, so that round(x, 2) has digits to drop.  *)
(* A timestamp is the request slot that took it, so records written by     *)
(* overlapping requests stay apart.  last is the response most recently    *)
(* sent to a caller.                                                       *)
(***************************************************************************)
EXTENDS Integers, Sequences, FiniteSets, TLC

VARIABLES orders, tables, locks, req, ncalls, last, menu, pubsub

vars == <<orders, tables, locks, req, ncalls, last, menu, pubsub>>

(***************************** bounds ****************************************)
MaxCalls == 4
MaxOrders == 2
MaxQty == 2
BilledCalls == 2
ItemCalls == 4
PrintCalls == 3
PayCalls == 2
CancelCalls == 2
AddPrintCalls == 2
AdminCalls == 2
MaxLines == 2

(***************************** constants *************************************)
NoOrder == 0
TAX_RATE == 0

Procs == {"p1", "p2"}
Tables == {"t1"}
Billers == {"u1", "u2"}
Openers == {"u1"}
Users == [u1 |-> "biller", u2 |-> "biller", ad |-> "admin"]
UserIds == {"u1", "u2", "ad"}
\* The menu_items collection as it starts; "Z" is an id that is not in it.
Menu == [A |-> [name |-> "tea", price |-> 20, is_active |-> TRUE],
         B |-> [name |-> "bun", price |-> 15, is_active |-> TRUE],
         C |-> [name |-> "old", price |-> 30, is_active |-> FALSE]]
MenuIds == {"A"}
ItemIds == {"A", "B", "C", "Z"}
QtyDeltas == {1, -1}
ItemDeltas == {1, 2, 0, -1, -2}
Reasons == {"customer left", "  "}
PayBatches == {<<10>>, <<10, 10>>}

RUNNING == {"open", "kot_printed", "billed"}

(***************************** data ******************************************)
OrderTotals == [sub_total |-> 0, tax_total |-> 0, discount_total |-> 0, grand_total |-> 0]

RECURSIVE SumLines(_)
SumLines(items) ==
    IF items = <<>> THEN 0
    ELSE items[1].price_snapshot * items[1].qty + SumLines(Tail(items))

RECURSIVE SumSeq(_)
SumSeq(s) == IF s = <<>> THEN 0 ELSE s[1].amount + SumSeq(Tail(s))

\* round(x, 2): to the nearest hundredth, a tie to the even one.
Round2(x) ==
    LET q == x \div 10
        r == x % 10
    IN IF r < 5 THEN 10 * q
       ELSE IF r > 5 THEN 10 * (q + 1)
       ELSE IF q % 2 = 0 THEN 10 * q ELSE 10 * (q + 1)

\* What the OrderTotals constructor raises when a field is below zero.
ValidationError == [error |-> "ValidationError"]

calculate_totals_discount_added(items, discount_total) ==
    LET sub_total == SumLines(items)
        tax_total == sub_total * TAX_RATE
        grand_total == sub_total + tax_total + discount_total
        totals == [sub_total |-> Round2(sub_total), tax_total |-> Round2(tax_total),
                   discount_total |-> Round2(discount_total),
                   grand_total |-> Round2(grand_total)]
    IN IF \E f \in DOMAIN totals : totals[f] < 0 THEN ValidationError ELSE totals

calculate_totals(items, discount_total) ==
    LET sub_total == SumLines(items)
        tax_total == sub_total * TAX_RATE
        grand_total == sub_total + tax_total - discount_total
        totals == [sub_total |-> Round2(sub_total), tax_total |-> Round2(tax_total),
                   discount_total |-> Round2(discount_total),
                   grand_total |-> Round2(grand_total)]
    IN IF \E f \in DOMAIN totals : totals[f] < 0 THEN ValidationError ELSE totals

NewOrder(table_id, user_id, now) ==
    [table_id |-> table_id, status |-> "open", items |-> <<>>,
     totals |-> OrderTotals, kot_prints |-> <<>>, bill_prints |-> <<>>,
     payments |-> <<>>, created_by |-> user_id, created_at |-> now,
     cancelled_at |-> "None", cancelled_by_user_id |-> "None",
     cancelled_by_role |-> "None", cancel_reason |-> "None"]

(***************************** repositories **********************************)
get_order_by_id(order_id) ==
    IF order_id \in 1..Len(orders) THEN order_id ELSE NoOrder

get_order_by_table_id_open_only(table_id) ==
    LET S == {o \in 1..Len(orders) :
                /\ orders[o].table_id = table_id
                /\ orders[o].status = "open"}
    IN IF S = {} THEN NoOrder ELSE CHOOSE o \in S : \A x \in S : x <= o

\* The newest order of the table whose status is open, kot_printed or billed.
get_order_by_table_id(table_id) ==
    LET S == {o \in 1..Len(orders) :
                /\ orders[o].table_id = table_id
                /\ orders[o].status \in {"open", "kot_printed", "billed"}}
    IN IF S = {} THEN NoOrder ELSE CHOOSE o \in S : \A x \in S : x <= o

NoItem == [none |-> TRUE]

get_item_by_id_or_first(item_id) ==
    IF item_id \in DOMAIN menu THEN menu[item_id] ELSE menu["A"]

get_item_by_id(item_id) ==
    IF item_id \in DOMAIN menu THEN menu[item_id] ELSE NoItem

update_order_replace(order_id, update_data) ==
    [orders EXCEPT ![order_id] =
        [f \in DOMAIN orders[order_id] |->
            IF f \in DOMAIN update_data THEN update_data[f]
            ELSE NewOrder(orders[order_id].table_id, orders[order_id].created_by,
                          orders[order_id].created_at)[f]]]

\* $set of the given fields; fields not named keep their value.
update_order(order_id, update_data) ==
    [orders EXCEPT ![order_id] =
        [f \in DOMAIN orders[order_id] |->
            IF f \in DOMAIN update_data THEN update_data[f] ELSE orders[order_id][f]]]

\* None values are dropped from the update before the $set.
update_table(table_id, update_data) ==
    [tables EXCEPT ![table_id] =
        [status |->
            IF update_data.status = "None"
            THEN tables[table_id].status
            ELSE update_data.status,
         current_order_id |->
            IF update_data.current_order_id = NoOrder
            THEN tables[table_id].current_order_id
            ELSE update_data.current_order_id]]

(***************************** requests **************************************)
\* The pub/sub side of Redis: whether there is a client, the channels on
\* which PUBLISH currently succeeds, and the messages delivered so far.
Channels == {"pos:admin", "pos:area"}
NoPublisher == [client |-> FALSE, up |-> {}, sent |-> <<>>]
Publishers ==
    {NoPublisher} \cup {[client |-> TRUE, up |-> u, sent |-> <<>>] : u \in SUBSET Channels}

NoUpd == [none |-> TRUE]
NoRes == [op |-> "none", order |-> NoOrder, code |-> 0, detail |-> "none"]

Idle == [pc |-> "idle", op |-> "none", table |-> "none", order |-> NoOrder,
         actor |-> "none", upd |-> NoUpd, lk |-> "none", res |-> NoRes]

Res(op, order, code, detail) ==
    [op |-> op, order |-> order, code |-> code, detail |-> detail]

\* The request of slot p answers its caller with res.
Respond(p, res) ==
    /\ req' = [req EXCEPT ![p] = Idle]
    /\ last' = res

\* The request of slot p goes on as r.
Await(p, r) ==
    /\ req' = [req EXCEPT ![p] = r]
    /\ UNCHANGED last

CanStart(p) == req[p].pc = "idle" /\ ncalls < MaxCalls

Existing == 1..Len(orders)

Init ==
    /\ orders = <<>>
    /\ tables = [t \in Tables |-> [status |-> "available", current_order_id |-> NoOrder]]
    /\ locks = {}
    /\ req = [p \in Procs |-> Idle]
    /\ ncalls = 0
    /\ last = NoRes
    /\ menu = Menu
    /\ pubsub = NoPublisher

(***************************** open_order ************************************)
Creating == Cardinality({p \in Procs : req[p].pc \in {"open_create"}})

open_order_read(p, table_id, user_id) ==
    /\ CanStart(p)
    /\ ncalls' = ncalls + 1
    /\ UNCHANGED <<pubsub, menu, orders, tables, locks>>
    /\ IF table_id \notin Tables
       THEN Respond(p, Res("open", NoOrder, 404, "Table not found"))
       ELSE LET existing_order == get_order_by_table_id(table_id) IN
            IF existing_order # NoOrder
            THEN Respond(p, Res("open", existing_order, 201, "existing"))
            ELSE /\ Len(orders) + Creating < MaxOrders
                 /\ Await(p,
                        [Idle EXCEPT !.pc = "open_create", !.op = "open",
                                     !.table = table_id,
                                     !.actor = user_id])

open_order_create(p) ==
    /\ req[p].pc = "open_create"
    /\ orders' = Append(orders, NewOrder(req[p].table, req[p].actor, p))
    /\ Await(p, [req[p] EXCEPT !.pc = "open_table", !.order = Len(orders) + 1])
    /\ UNCHANGED <<pubsub, menu, tables, locks, ncalls>>

open_order_table(p) ==
    /\ req[p].pc = "open_table"
    /\ tables' = update_table(req[p].table,
                    [status |-> "occupied", current_order_id |-> req[p].order])
    /\ Respond(p, Res("open", req[p].order, 201, "created"))
    /\ UNCHANGED <<pubsub, menu, orders, locks, ncalls>>

(***************************** add_order_item ********************************)
IndexOf(items, item_id) ==
    LET S == {i \in 1..Len(items) : items[i].item_id = item_id}
    IN IF S = {} THEN 0 ELSE CHOOSE i \in S : \A j \in S : i <= j

RemoveAt_head(s, i) == [j \in 1..(Len(s) - 1) |-> s[j + 1]]

RemoveAt(s, i) == [j \in 1..(Len(s) - 1) |-> IF j < i THEN s[j] ELSE s[j + 1]]

ApplyItemUpdate_resnapshot(items, item_id, qty_delta) ==
    LET i == IndexOf(items, item_id) IN
    IF i # 0
    THEN LET new_qty == items[i].qty + qty_delta IN
         IF new_qty <= 0 THEN RemoveAt(items, i)
         ELSE [items EXCEPT ![i].qty = new_qty,
                            ![i].name_snapshot = get_item_by_id(item_id).name,
                            ![i].price_snapshot = get_item_by_id(item_id).price]
    ELSE Append(items, [item_id |-> item_id,
                        name_snapshot |-> get_item_by_id(item_id).name,
                        price_snapshot |-> get_item_by_id(item_id).price,
                        qty |-> qty_delta, notes |-> "None"])

ApplyItemUpdate_keeps_zero(items, item_id, qty_delta) ==
    LET i == IndexOf(items, item_id) IN
    IF i # 0
    THEN LET new_qty == items[i].qty + qty_delta IN
         IF new_qty < 0 THEN RemoveAt(items, i)
         ELSE [items EXCEPT ![i].qty = new_qty]
    ELSE Append(items, [item_id |-> item_id,
                        name_snapshot |-> get_item_by_id(item_id).name,
                        price_snapshot |-> get_item_by_id(item_id).price,
                        qty |-> qty_delta, notes |-> "None"])

\* The items list after the update; a new line is appended with qty_delta.
ApplyItemUpdate(items, item_id, qty_delta) ==
    LET i == IndexOf(items, item_id) IN
    IF i # 0
    THEN LET new_qty == items[i].qty + qty_delta IN
         IF new_qty <= 0 THEN RemoveAt(items, i)
         ELSE [items EXCEPT ![i].qty = new_qty]
    ELSE Append(items, [item_id |-> item_id,
                        name_snapshot |-> get_item_by_id(item_id).name,
                        price_snapshot |-> get_item_by_id(item_id).price,
                        qty |-> qty_delta, notes |-> "None"])

WithinQty(order_id, item_id, qty_delta) ==
    order_id \in 1..Len(orders) =>
        LET i == IndexOf(orders[order_id].items, item_id) IN
        (IF i = 0 THEN 0 ELSE orders[order_id].items[i].qty) + qty_delta <= MaxQty

add_order_item_read(p, order_id, item_id, qty_delta) ==
    /\ CanStart(p)
    /\ WithinQty(order_id, item_id, qty_delta)
    /\ ncalls' = ncalls + 1
    /\ UNCHANGED <<pubsub, menu, orders, tables, locks>>
    /\ LET order == get_order_by_id(order_id) IN
       IF order = NoOrder
       THEN Respond(p, Res("add", NoOrder, 404, "Order not found"))
       ELSE IF orders[order].status \in {"paid", "closed", "cancelled"}
       THEN Respond(p, Res("add", order, 400, "Cannot modify"))
       ELSE IF get_item_by_id(item_id) = NoItem
       THEN Respond(p, Res("add", order, 404, "Menu item not found"))
       ELSE IF ~get_item_by_id(item_id).is_active
       THEN Respond(p, Res("add", order, 400, "Menu item is not active"))
       ELSE IF IndexOf(orders[order].items, item_id) = 0 /\ qty_delta <= 0
       THEN Respond(p, Res("add", order, 400, "zero or negative quantity"))
       ELSE LET items == ApplyItemUpdate(orders[order].items, item_id, qty_delta)
                totals == calculate_totals(items, orders[order].totals.discount_total)
            IN IF totals = ValidationError
               THEN Respond(p, Res("add", order, 500, "ValidationError"))
               ELSE Await(p,
                        [Idle EXCEPT !.pc = "add_write", !.op = "add",
                                     !.order = order,
                                     !.upd = [items |-> items, totals |-> totals]])

add_order_item_write_items_only(p) ==
    /\ req[p].pc = "add_write"
    /\ orders' = update_order(req[p].order, [items |-> req[p].upd.items])
    /\ Respond(p, Res("add", req[p].order, 200, "ok"))
    /\ UNCHANGED <<pubsub, menu, tables, locks, ncalls>>

add_order_item_write(p) ==
    /\ req[p].pc = "add_write"
    /\ orders' = update_order(req[p].order, req[p].upd)
    /\ Respond(p, Res("add", req[p].order, 200, "ok"))
    /\ UNCHANGED <<pubsub, menu, tables, locks, ncalls>>

(***************************** redis locks ***********************************)
LockKey(kind, order_id) == <<kind, order_id>>

KeyOf(p) == LockKey(req[p].op, req[p].order)

\* Requests whose SET NX succeeded on key and whose key has not been removed since.
Lapse(r, key, me) ==
    [q \in Procs |->
        IF q # me /\ r[q].lk = "real" /\ LockKey(r[q].op, r[q].order) = key
        THEN [r[q] EXCEPT !.lk = "lapsed"] ELSE r[q]]

acquire_lock_fail_closed(key, failed) == ~failed /\ key \notin locks

acquire_lock_without_nx(key, failed) == TRUE

\* SET lock:key 1 NX EX ttl.  failed: the client is absent or the call raised.
acquire_lock(key, failed) ==
    IF failed THEN TRUE ELSE key \notin locks

LocksAfterAcquire(key, failed) ==
    IF failed THEN locks ELSE locks \cup {key}

release_lock_keeps_key(key, failed) == locks

\* DEL lock:key, whoever set it.
release_lock(key, failed) ==
    IF failed THEN locks ELSE locks \ {key}

\* The TTL of a key runs out.
expire_lock(key) ==
    /\ key \in locks
    /\ locks' = locks \ {key}
    /\ req' = Lapse(req, key, "none")
    /\ UNCHANGED <<pubsub, menu, orders, tables, ncalls, last>>

(***************************** print_kot / print_bill ************************)
PrintAcquire(p, kind, order_id, failed) ==
    /\ CanStart(p)
    /\ ncalls' = ncalls + 1
    /\ UNCHANGED <<pubsub, menu, orders, tables>>
    /\ IF ~acquire_lock(LockKey(kind, order_id), failed)
       THEN /\ Respond(p, Res(kind, order_id, 429, "already in progress"))
            /\ UNCHANGED locks
       ELSE /\ locks' = LocksAfterAcquire(LockKey(kind, order_id), failed)
            /\ Await(p,
                    [Idle EXCEPT !.pc = "print_read", !.op = kind,
                                 !.order = order_id,
                                 !.lk = IF failed THEN "failopen" ELSE "real"])

KotUpdate(order, now) ==
    [kot_prints |-> Append(orders[order].kot_prints,
                        [printed_at |-> now, items_snapshot |-> orders[order].items]),
     status |-> IF orders[order].status = "open" THEN "kot_printed"
                ELSE orders[order].status]

BillUpdate_keeps_status(order, now) ==
    [bill_prints |-> Append(orders[order].bill_prints,
                        [printed_at |-> now, totals_snapshot |-> orders[order].totals]),
     status |-> orders[order].status]

BillUpdate(order, now) ==
    [bill_prints |-> Append(orders[order].bill_prints,
                        [printed_at |-> now, totals_snapshot |-> orders[order].totals]),
     status |-> "billed"]

PrintRead_without_items_check(p, kind) ==
    /\ req[p].pc = "print_read"
    /\ req[p].op = kind
    /\ UNCHANGED <<pubsub, menu, orders, tables, locks, ncalls>>
    /\ LET order == get_order_by_id(req[p].order) IN
       IF order = NoOrder
       THEN Await(p, [req[p] EXCEPT !.pc = "print_release",
                                    !.res = Res(kind, NoOrder, 404, "Order not found")])
       ELSE Await(p, [req[p] EXCEPT !.pc = "print_write",
                                    !.upd = IF kind = "kot" THEN KotUpdate(order, p)
                                            ELSE BillUpdate(order, p)])

PrintRead(p, kind) ==
    /\ req[p].pc = "print_read"
    /\ req[p].op = kind
    /\ UNCHANGED <<pubsub, menu, orders, tables, locks, ncalls>>
    /\ LET order == get_order_by_id(req[p].order) IN
       IF order = NoOrder
       THEN Await(p, [req[p] EXCEPT !.pc = "print_release",
                                    !.res = Res(kind, NoOrder, 404, "Order not found")])
       ELSE IF orders[order].items = <<>>
       THEN Await(p, [req[p] EXCEPT !.pc = "print_release",
                                    !.res = Res(kind, order, 400, "no items")])
       ELSE Await(p, [req[p] EXCEPT !.pc = "print_write",
                                    !.upd = IF kind = "kot" THEN KotUpdate(order, p)
                                            ELSE BillUpdate(order, p)])

PrintWrite(p, kind) ==
    /\ req[p].pc = "print_write"
    /\ req[p].op = kind
    /\ orders' = update_order(req[p].order, req[p].upd)
    /\ Await(p, [req[p] EXCEPT !.pc = "print_release", !.upd = NoUpd,
                               !.res = Res(kind, req[p].order, 200, "ok")])
    /\ UNCHANGED <<pubsub, menu, tables, locks, ncalls>>

\* update_order returns None: the store did not take the write.
PrintWriteFailed(p, kind) ==
    /\ req[p].pc = "print_write"
    /\ req[p].op = kind
    /\ Await(p, [req[p] EXCEPT !.pc = "print_release", !.upd = NoUpd,
                               !.res = Res(kind, req[p].order, 500,
                                           "Failed to update order")])
    /\ UNCHANGED <<pubsub, menu, orders, tables, locks, ncalls>>

\* The finally clause, then the return or the raise it was reached by.
PrintRelease(p, kind, failed) ==
    /\ req[p].pc = "print_release"
    /\ req[p].op = kind
    /\ locks' = release_lock(KeyOf(p), failed)
    /\ req' = [IF failed THEN req ELSE Lapse(req, KeyOf(p), p) EXCEPT ![p] = Idle]
    /\ last' = req[p].res
    /\ UNCHANGED <<pubsub, menu, orders, tables, ncalls>>

print_kot_acquire(p, order_id, failed) == PrintAcquire(p, "kot", order_id, failed)
print_kot_read(p) == PrintRead(p, "kot")
print_kot_write(p) == PrintWrite(p, "kot")
print_kot_write_failed(p) == PrintWriteFailed(p, "kot")
print_kot_release(p, failed) == PrintRelease(p, "kot", failed)

print_bill_acquire(p, order_id, failed) == PrintAcquire(p, "bill", order_id, failed)
print_bill_read(p) == PrintRead(p, "bill")
print_bill_write(p) == PrintWrite(p, "bill")
print_bill_write_failed(p) == PrintWriteFailed(p, "bill")
print_bill_release(p, failed) == PrintRelease(p, "bill", failed)

(***************************** process_payment *******************************)
Payments(batch, now) ==
    [i \in 1..Len(batch) |-> [amount |-> batch[i], method |-> "cash", paid_at |-> now]]

NotBilled_any_running(status) == status \notin {"open", "kot_printed", "billed"}

NotBilled(status) == status # "billed"

Insufficient(payments, totals) == SumSeq(payments) < totals.grand_total

process_payment_read(p, order_id, batch) ==
    /\ CanStart(p)
    /\ ncalls' = ncalls + 1
    /\ UNCHANGED <<pubsub, menu, orders, tables, locks>>
    /\ LET order == get_order_by_id(order_id)
           payments == Payments(batch, p) IN
       IF order = NoOrder
       THEN Respond(p, Res("pay", NoOrder, 404, "Order not found"))
       ELSE IF NotBilled(orders[order].status)
       THEN Respond(p, Res("pay", order, 400, "Order must be billed"))
       ELSE IF Insufficient(payments, orders[order].totals)
       THEN Respond(p, Res("pay", order, 400, "less than grand total"))
       ELSE Await(p,
                [Idle EXCEPT !.pc = "pay_paid", !.op = "pay",
                             !.order = order, !.table = orders[order].table_id,
                             !.upd = [payments |-> orders[order].payments \o payments,
                                      status |-> "paid"]])

process_payment_paid_status_only(p) ==
    /\ req[p].pc = "pay_paid"
    /\ orders' = update_order(req[p].order, [status |-> "paid"])
    /\ Await(p, [req[p] EXCEPT !.pc = "pay_closed", !.upd = NoUpd])
    /\ UNCHANGED <<pubsub, menu, tables, locks, ncalls>>

process_payment_paid(p) ==
    /\ req[p].pc = "pay_paid"
    /\ orders' = update_order(req[p].order, req[p].upd)
    /\ Await(p, [req[p] EXCEPT !.pc = "pay_closed", !.upd = NoUpd])
    /\ UNCHANGED <<pubsub, menu, tables, locks, ncalls>>

process_payment_closed(p) ==
    /\ req[p].pc = "pay_closed"
    /\ orders' = update_order(req[p].order, [status |-> "closed"])
    /\ Await(p, [req[p] EXCEPT !.pc = "pay_table"])
    /\ UNCHANGED <<pubsub, menu, tables, locks, ncalls>>

process_payment_table(p) ==
    /\ req[p].pc = "pay_table"
    /\ tables' = IF req[p].table \in Tables
                 THEN update_table(req[p].table,
                        [status |-> "available", current_order_id |-> NoOrder])
                 ELSE tables
    /\ Respond(p, Res("pay", req[p].order, 200, "ok"))
    /\ UNCHANGED <<pubsub, menu, orders, locks, ncalls>>

\* The first update_order returns None: nothing is stored and the call ends
\* with 500.
process_payment_paid_failed(p) ==
    /\ req[p].pc = "pay_paid"
    /\ Respond(p, Res("pay", req[p].order, 500, "Failed to update order"))
    /\ UNCHANGED <<pubsub, menu, orders, tables, locks, ncalls>>

\* The second update_order returns None; its result is not looked at.
process_payment_closed_failed(p) ==
    /\ req[p].pc = "pay_closed"
    /\ Await(p, [req[p] EXCEPT !.pc = "pay_table"])
    /\ UNCHANGED <<pubsub, menu, orders, tables, locks, ncalls>>

\* The server stops between the two writes; the caller gets no response.
process_payment_stop(p) ==
    /\ req[p].pc = "pay_closed"
    /\ req' = [req EXCEPT ![p] = Idle]
    /\ UNCHANGED <<pubsub, menu, orders, tables, locks, ncalls, last>>

(***************************** publish_event *********************************)
publish_event_raises(ps, channel, payload) ==
    IF "error" \in DOMAIN ps \/ ~ps.client THEN ps
    ELSE IF channel \in ps.up
    THEN [ps EXCEPT !.sent = Append(@, [channel |-> channel, payload |-> payload])]
    ELSE [error |-> "ConnectionError"]

\* A missing client and a PUBLISH that raises both leave without a trace.
publish_event(ps, channel, payload) ==
    IF ~ps.client THEN ps
    ELSE IF channel \in ps.up
    THEN [ps EXCEPT !.sent = Append(@, [channel |-> channel, payload |-> payload])]
    ELSE ps

\* The payload of the order_cancelled event, without the fields that repeat
\* what update_order returned, and the two publishes.
CancelPayload(order_id) ==
    [type |-> "order_cancelled", order_id |-> order_id,
     table_id |-> orders[order_id].table_id]

PublishCancelled(order_id) ==
    publish_event(publish_event(pubsub, "pos:admin", CancelPayload(order_id)),
                  "pos:area", CancelPayload(order_id))

\* The end of cancel_order_service: an exception out of the publishes would
\* be answered with 500 instead of the order.
CancelReturn(p) ==
    IF "error" \in DOMAIN PublishCancelled(req[p].order)
    THEN /\ pubsub' = pubsub
         /\ Respond(p, Res("cancel", req[p].order, 500, "Internal Server Error"))
    ELSE /\ pubsub' = PublishCancelled(req[p].order)
         /\ Respond(p, Res("cancel", req[p].order, 200, "ok"))

(***************************** cancel_order_service **************************)
Strip(reason) == IF reason = "  " THEN "" ELSE reason

Allowed_any_biller(role, user_id, order) == role \in {"admin", "biller"}

Allowed(role, user_id, order) ==
    IF role = "admin" THEN TRUE
    ELSE IF role = "biller" THEN orders[order].created_by = user_id
    ELSE FALSE

cancel_order_read(p, order_id, user_id, reason_in) ==
    /\ CanStart(p)
    /\ ncalls' = ncalls + 1
    /\ UNCHANGED <<pubsub, menu, orders, tables, locks>>
    /\ LET reason == Strip(reason_in)
           order == get_order_by_id(order_id) IN
       IF reason = ""
       THEN Respond(p, Res("cancel", NoOrder, 400, "reason is required"))
       ELSE IF order = NoOrder
       THEN Respond(p, Res("cancel", NoOrder, 404, "Order not found"))
       ELSE IF orders[order].status = "cancelled"
       THEN Respond(p, Res("cancel", order, 409, "already cancelled"))
       ELSE IF ~Allowed(Users[user_id], user_id, order)
       THEN Respond(p, Res("cancel", order, 403, "no permission"))
       ELSE Await(p,
                [Idle EXCEPT !.pc = "cancel_write", !.op = "cancel",
                             !.order = order, !.table = orders[order].table_id,
                             !.actor = user_id,
                             !.upd = [status |-> "cancelled",
                                      cancelled_at |-> p,
                                      cancelled_by_user_id |-> user_id,
                                      cancelled_by_role |-> Users[user_id],
                                      cancel_reason |-> reason]])

cancel_order_write(p) ==
    /\ req[p].pc = "cancel_write"
    /\ orders' = update_order(req[p].order, req[p].upd)
    /\ Await(p, [req[p] EXCEPT !.pc = "cancel_table", !.upd = NoUpd])
    /\ UNCHANGED <<pubsub, menu, tables, locks, ncalls>>

\* get_table_by_id and the test on current_order_id.
cancel_order_table(p) ==
    /\ req[p].pc = "cancel_table"
    /\ IF req[p].table \in Tables /\ tables[req[p].table].current_order_id = req[p].order
       THEN /\ pubsub' = pubsub
            /\ Await(p, [req[p] EXCEPT !.pc = "cancel_clear"])
       ELSE CancelReturn(p)
    /\ UNCHANGED <<menu, orders, tables, locks, ncalls>>

cancel_order_clear(p) ==
    /\ req[p].pc = "cancel_clear"
    /\ tables' = update_table(req[p].table,
                    [status |-> "available", current_order_id |-> NoOrder])
    /\ CancelReturn(p)
    /\ UNCHANGED <<menu, orders, locks, ncalls>>

(***************************** specification *********************************)
Next ==
    \/ \E p \in Procs, t \in Tables, u \in Openers : open_order_read(p, t, u)
    \/ \E p \in Procs : open_order_create(p)
    \/ \E p \in Procs : open_order_table(p)
    \/ \E p \in Procs, o \in Existing, i \in MenuIds, d \in QtyDeltas :
            add_order_item_read(p, o, i, d)
    \/ \E p \in Procs : add_order_item_write(p)
    \/ \E p \in Procs, o \in Existing, f \in BOOLEAN : print_kot_acquire(p, o, f)
    \/ \E p \in Procs : print_kot_read(p)
    \/ \E p \in Procs : print_kot_write(p)
    \/ \E p \in Procs, f \in BOOLEAN : print_kot_release(p, f)
    \/ \E p \in Procs, o \in Existing, f \in BOOLEAN : print_bill_acquire(p, o, f)
    \/ \E p \in Procs : print_bill_read(p)
    \/ \E p \in Procs : print_bill_write(p)
    \/ \E p \in Procs, f \in BOOLEAN : print_bill_release(p, f)
    \/ \E p \in Procs, o \in Existing, b \in PayBatches : process_payment_read(p, o, b)
    \/ \E p \in Procs : process_payment_paid(p)
    \/ \E p \in Procs : process_payment_closed(p)
    \/ \E p \in Procs : process_payment_table(p)
    \/ \E p \in Procs, o \in Existing, u \in UserIds, r \in Reasons :
            cancel_order_read(p, o, u, r)
    \/ \E p \in Procs : cancel_order_write(p)
    \/ \E p \in Procs : cancel_order_table(p)
    \/ \E p \in Procs : cancel_order_clear(p)
    \/ \E k \in locks : expire_lock(k)

Spec == Init /\ [][Next]_vars

(***************************************************************************)
(* The same system started from a table whose order has one line and has   *)
(* just been billed by slot p1 (open_order, add_order_item, print_bill),   *)
(* with BilledCalls calls left.                                            *)
(***************************************************************************)
BilledOrder ==
    LET items == ApplyItemUpdate(<<>>, "A", 1)
        totals == calculate_totals(items, 0)
    IN [NewOrder("t1", "u1", "p1") EXCEPT
            !.status = "billed", !.items = items, !.totals = totals,
            !.bill_prints = <<[printed_at |-> "p1", totals_snapshot |-> totals]>>]

InitBilled ==
    /\ menu = Menu
    /\ pubsub = NoPublisher
    /\ orders = <<BilledOrder>>
    /\ tables = [t \in Tables |-> [status |-> "occupied", current_order_id |-> 1]]
    /\ locks = {}
    /\ req = [p \in Procs |-> Idle]
    /\ ncalls = MaxCalls - BilledCalls
    /\ last = Res("bill", 1, 200, "ok")

SpecBilled == InitBilled /\ [][Next]_vars

\* The billed starting state is a state of Spec.
BilledReachable ==
    /\ orders = <<BilledOrder>>
    /\ tables = [t \in Tables |-> [status |-> "occupied", current_order_id |-> 1]]
    /\ locks = {}
    /\ req = [p \in Procs |-> Idle]
    /\ last = Res("bill", 1, 200, "ok")

(***************************** item updates **********************************)
\* States in which add_order_item can find an order: just opened, billed,
\* paid by a payment still in flight, closed, cancelled.
PaidOrder ==
    [BilledOrder EXCEPT !.status = "paid", !.payments = Payments(<<10, 10>>, "p1")]

ClosedOrder == [PaidOrder EXCEPT !.status = "closed"]

CancelledOrder ==
    [BilledOrder EXCEPT !.status = "cancelled", !.cancelled_at = "p1",
                        !.cancelled_by_user_id = "u1",
                        !.cancelled_by_role = "biller",
                        !.cancel_reason = "customer left"]

Occupied == [t \in Tables |-> [status |-> "occupied", current_order_id |-> 1]]
Released == [t \in Tables |-> [status |-> "available", current_order_id |-> 1]]
AllIdle == [p \in Procs |-> Idle]

ItemStarts ==
    {[orders |-> <<NewOrder("t1", "u1", "p1")>>, tables |-> Occupied,
      req |-> AllIdle, last |-> Res("open", 1, 201, "created")],
     [orders |-> <<BilledOrder>>, tables |-> Occupied,
      req |-> AllIdle, last |-> Res("bill", 1, 200, "ok")],
     [orders |-> <<PaidOrder>>, tables |-> Occupied,
      req |-> [AllIdle EXCEPT !["p1"] =
                    [Idle EXCEPT !.pc = "pay_closed", !.op = "pay",
                                 !.order = 1, !.table = "t1"]],
      last |-> Res("bill", 1, 200, "ok")],
     [orders |-> <<ClosedOrder>>, tables |-> Released,
      req |-> AllIdle, last |-> Res("pay", 1, 200, "ok")],
     [orders |-> <<CancelledOrder>>, tables |-> Released,
      req |-> AllIdle, last |-> Res("cancel", 1, 200, "ok")]}

InitItems ==
    /\ menu = Menu
    /\ pubsub = NoPublisher
    /\ \E s \in ItemStarts :
            /\ orders = s.orders
            /\ tables = s.tables
            /\ req = s.req
            /\ last = s.last
    /\ locks = {}
    /\ ncalls = MaxCalls - ItemCalls

\* add_order_item with every kind of menu item and quantity change, next to
\* the rest of a payment that is in flight.
NextItems ==
    \/ \E p \in Procs, o \in Existing, i \in ItemIds, d \in ItemDeltas :
            add_order_item_read(p, o, i, d)
    \/ \E p \in Procs : add_order_item_write(p)
    \/ \E p \in Procs : process_payment_closed(p)
    \/ \E p \in Procs : process_payment_table(p)

SpecItems == InitItems /\ [][NextItems]_vars

\* Each starting state of SpecItems is a state of Spec or of SpecBilled.
ItemStartReached ==
    \E s \in ItemStarts :
        /\ orders = s.orders
        /\ tables = s.tables
        /\ req = s.req
        /\ last = s.last
        /\ locks = {}

(***************************** printing **************************************)
\* print_kot and print_bill on an order without items and on a billed one,
\* with order ids that do not exist, store writes that fail and a lock
\* backend that fails.
PrintStarts == {s \in ItemStarts : s.orders[1].status \in {"open", "billed"}}

InitPrint ==
    /\ menu = Menu
    /\ pubsub = NoPublisher
    /\ \E s \in PrintStarts :
            /\ orders = s.orders
            /\ tables = s.tables
            /\ req = s.req
            /\ last = s.last
    /\ locks = {}
    /\ ncalls = MaxCalls - PrintCalls

NextPrint ==
    \/ \E p \in Procs, o \in Existing \cup {Len(orders) + 1}, f \in BOOLEAN :
            print_kot_acquire(p, o, f)
    \/ \E p \in Procs : print_kot_read(p)
    \/ \E p \in Procs : print_kot_write(p)
    \/ \E p \in Procs : print_kot_write_failed(p)
    \/ \E p \in Procs, f \in BOOLEAN : print_kot_release(p, f)
    \/ \E p \in Procs, o \in Existing \cup {Len(orders) + 1}, f \in BOOLEAN :
            print_bill_acquire(p, o, f)
    \/ \E p \in Procs : print_bill_read(p)
    \/ \E p \in Procs : print_bill_write(p)
    \/ \E p \in Procs : print_bill_write_failed(p)
    \/ \E p \in Procs, f \in BOOLEAN : print_bill_release(p, f)
    \/ \E k \in locks : expire_lock(k)

SpecPrint == InitPrint /\ [][NextPrint]_vars

(***************************** payment failures ******************************)
\* process_payment on the billed order, with store writes that fail and a
\* server that stops between the two writes.
InitPay ==
    /\ menu = Menu
    /\ pubsub = NoPublisher
    /\ orders = <<BilledOrder>>
    /\ tables = Occupied
    /\ locks = {}
    /\ req = AllIdle
    /\ ncalls = MaxCalls - PayCalls
    /\ last = Res("bill", 1, 200, "ok")

NextPay ==
    \/ \E p \in Procs, o \in Existing, b \in PayBatches :
            process_payment_read(p, o, b)
    \/ \E p \in Procs : process_payment_paid(p)
    \/ \E p \in Procs : process_payment_paid_failed(p)
    \/ \E p \in Procs : process_payment_closed(p)
    \/ \E p \in Procs : process_payment_closed_failed(p)
    \/ \E p \in Procs : process_payment_stop(p)
    \/ \E p \in Procs : process_payment_table(p)

SpecPay == InitPay /\ [][NextPay]_vars

(***************************** cancel and events *****************************)
\* cancel_order_service on an order in each status and under each state of
\* the publisher.
CancelStarts == {s \in ItemStarts : s.req = AllIdle}

InitCancel ==
    /\ menu = Menu
    /\ pubsub \in Publishers
    /\ locks = {}
    /\ ncalls = MaxCalls - CancelCalls
    /\ \E s \in CancelStarts :
            /\ orders = s.orders
            /\ tables = s.tables
            /\ req = s.req
            /\ last = s.last

NextCancel ==
    \/ \E p \in Procs, o \in Existing, u \in UserIds, r \in Reasons :
            cancel_order_read(p, o, u, r)
    \/ \E p \in Procs : cancel_order_write(p)
    \/ \E p \in Procs : cancel_order_table(p)
    \/ \E p \in Procs : cancel_order_clear(p)

SpecCancel == InitCancel /\ [][NextCancel]_vars

(***************************** table edits ***********************************)
\* The fields of TableUpdate that the model keeps; "None" and NoOrder stand
\* for a field that is not sent. "t9" is an id that is not in the tables
\* collection, and order id 2 is a well-formed id.
AdminTableIds == {"t1", "t9"}
TableUpdates ==
    {[status |-> s, current_order_id |-> c] :
        s \in {"None", "available", "out_of_order"}, c \in {NoOrder, 2}}

\* The admin edit of a table: every field that was sent is stored.
update_table_service(table_id, table_data) ==
    /\ ncalls < MaxCalls
    /\ ncalls' = ncalls + 1
    /\ IF table_id \notin DOMAIN tables
       THEN /\ tables' = tables
            /\ last' = Res("table", NoOrder, 404, "Table not found")
       ELSE /\ tables' = update_table(table_id, table_data)
            /\ last' = Res("table", NoOrder, 200, "ok")
    /\ UNCHANGED <<pubsub, menu, orders, locks, req>>

\* Table edits while the billed order is paid or cancelled.
InitAdmin ==
    /\ menu = Menu
    /\ pubsub = NoPublisher
    /\ orders = <<BilledOrder>>
    /\ tables = Occupied
    /\ locks = {}
    /\ req = AllIdle
    /\ ncalls = MaxCalls - AdminCalls
    /\ last = Res("bill", 1, 200, "ok")

NextAdmin ==
    \/ \E t \in AdminTableIds, d \in TableUpdates : update_table_service(t, d)
    \/ \E p \in Procs, o \in Existing, b \in PayBatches :
            process_payment_read(p, o, b)
    \/ \E p \in Procs : process_payment_paid(p)
    \/ \E p \in Procs : process_payment_closed(p)
    \/ \E p \in Procs : process_payment_table(p)
    \/ \E p \in Procs, o \in Existing, u \in UserIds, r \in Reasons :
            cancel_order_read(p, o, u, r)
    \/ \E p \in Procs : cancel_order_write(p)
    \/ \E p \in Procs : cancel_order_table(p)
    \/ \E p \in Procs : cancel_order_clear(p)

SpecAdmin == InitAdmin /\ [][NextAdmin]_vars

(***************************** menu edits ************************************)
EditIds == {"A"}
MenuEdits == {[name |-> "chai", price |-> 30], [is_active |-> FALSE]}

\* $set of the given fields of a menu item.
update_item(item_id, update_data) ==
    [menu EXCEPT ![item_id] =
        [f \in DOMAIN menu[item_id] |->
            IF f \in DOMAIN update_data THEN update_data[f] ELSE menu[item_id][f]]]

\* The admin edit of a menu item; a write that modifies nothing is answered
\* like a missing item.
update_item_service(item_id, item_data) ==
    /\ ncalls < MaxCalls
    /\ ncalls' = ncalls + 1
    /\ IF item_id \notin DOMAIN menu \/ update_item(item_id, item_data) = menu
       THEN /\ menu' = menu
            /\ last' = Res("menu", NoOrder, 404, "Menu item not found")
       ELSE /\ menu' = update_item(item_id, item_data)
            /\ last' = Res("menu", NoOrder, 200, "ok")
    /\ UNCHANGED <<pubsub, orders, tables, locks, req>>

\* add_order_item on a newly opened order while the menu is edited.
InitMenu ==
    /\ menu = Menu
    /\ pubsub = NoPublisher
    /\ orders = <<NewOrder("t1", "u1", "p1")>>
    /\ tables = Occupied
    /\ locks = {}
    /\ req = AllIdle
    /\ ncalls = MaxCalls - ItemCalls
    /\ last = Res("open", 1, 201, "created")

NextMenu ==
    \/ \E p \in Procs, o \in Existing, i \in ItemIds, d \in ItemDeltas :
            add_order_item_read(p, o, i, d)
    \/ \E p \in Procs : add_order_item_write(p)
    \/ \E i \in EditIds, e \in MenuEdits : update_item_service(i, e)

SpecMenu == InitMenu /\ [][NextMenu]_vars

(***************************** calculate_totals ******************************)
\* Item lists and discounts handed to calculate_totals.
LinePrices == {5, 15, 126}
Discounts == {0, 4, 10, 300}

Lines ==
    [item_id : {"A"}, name_snapshot : {"tea"}, price_snapshot : LinePrices,
     qty : 1..MaxQty, notes : {"None"}]

ItemLists == UNION {[1..n -> Lines] : n \in 0..MaxLines}

NoCall == [op |-> "calculate_totals", items |-> <<>>, discount_total |-> 0,
           returned |-> FALSE, totals |-> OrderTotals]

InitTotals ==
    /\ orders = <<>>
    /\ tables = [t \in Tables |-> [status |-> "available", current_order_id |-> NoOrder]]
    /\ locks = {}
    /\ req = [p \in Procs |-> Idle]
    /\ ncalls = 0
    /\ menu = Menu
    /\ pubsub = NoPublisher
    /\ \E L \in ItemLists, d \in Discounts :
            last = [NoCall EXCEPT !.items = L, !.discount_total = d]

calculate_totals_call ==
    /\ ~last.returned
    /\ last' = [last EXCEPT !.returned = TRUE,
                            !.totals = calculate_totals(last.items, last.discount_total)]
    /\ UNCHANGED <<pubsub, menu, orders, tables, locks, req, ncalls>>

NextTotals == calculate_totals_call

SpecTotals == InitTotals /\ [][NextTotals]_vars


(***************************** add next to print *****************************)
\* add_order_item while print_kot and print_bill run on an open order that
\* has one line.
OpenOrderWithLine ==
    LET items == ApplyItemUpdate(<<>>, "A", 1)
    IN [NewOrder("t1", "u1", "p1") EXCEPT
            !.items = items, !.totals = calculate_totals(items, 0)]

InitAddPrint ==
    /\ menu = Menu
    /\ pubsub = NoPublisher
    /\ orders = <<OpenOrderWithLine>>
    /\ tables = Occupied
    /\ locks = {}
    /\ req = AllIdle
    /\ ncalls = MaxCalls - AddPrintCalls
    /\ last = Res("add", 1, 200, "ok")

NextAddPrint ==
    \/ \E p \in Procs, o \in Existing, i \in MenuIds, d \in QtyDeltas :
            add_order_item_read(p, o, i, d)
    \/ \E p \in Procs : add_order_item_write(p)
    \/ \E p \in Procs, o \in Existing, f \in BOOLEAN : print_kot_acquire(p, o, f)
    \/ \E p \in Procs : print_kot_read(p)
    \/ \E p \in Procs : print_kot_write(p)
    \/ \E p \in Procs, f \in BOOLEAN : print_kot_release(p, f)
    \/ \E p \in Procs, o \in Existing, f \in BOOLEAN : print_bill_acquire(p, o, f)
    \/ \E p \in Procs : print_bill_read(p)
    \/ \E p \in Procs : print_bill_write(p)
    \/ \E p \in Procs, f \in BOOLEAN : print_bill_release(p, f)

SpecAddPrint == InitAddPrint /\ [][NextAddPrint]_vars

(***************************** list_orders ***********************************)
\* Timestamps of the listing and reporting stores are numbers; the day of a
\* timestamp is its tens digit.
Today == 2
DayStart(day) == 10 * day
DayEnd(day) == 10 * day + 9
NoDate == 0

\* The names of the tables the listed orders sit at, letter by letter.
TableNames == [t1 |-> <<"P", "a", "t">>, t2 |-> <<"B", "a", "r">>]

Lower(c) ==
    CASE c = "P" -> "p" [] c = "A" -> "a" [] c = "T" -> "t"
      [] c = "B" -> "b" [] c = "R" -> "r" [] OTHER -> c

\* {"name": {"$regex": text, "$options": "i"}}: text is searched as a
\* pattern, in which "." stands for any character.
RegexMatchAt(pat, str, i) ==
    \A k \in 1..Len(pat) :
        /\ i + k - 1 <= Len(str)
        /\ (pat[k] = "." \/ Lower(pat[k]) = Lower(str[i + k - 1]))

RegexSearch(pat, str) == \E i \in 1..(Len(str) + 1) : RegexMatchAt(pat, str, i)

\* A text <<"oid", n>> stands for the 24 hex digits of order id n.
IsValidOid(text) == Len(text) = 2 /\ text[1] = "oid"
OidOrders == [n \in {"1", "2", "9"} |-> CASE n = "1" -> 1 [] n = "2" -> 2 [] OTHER -> 9]

\* User ids that are well-formed ObjectIds; "bad" is not.
ValidUserOids == UserIds \cup {"u9"}

build_status_filter(scope) ==
    CASE scope = "running" -> {"open", "kot_printed", "billed"}
      [] scope = "closed" -> {"paid", "closed"}
      [] scope = "cancelled" -> {"cancelled"}
      [] OTHER -> {"open", "kot_printed", "billed", "paid", "closed", "cancelled"}

\* The ids sorted by created_at, newest first.
RECURSIVE SortNewestFirst(_)
SortNewestFirst(ids) ==
    IF ids = {} THEN <<>>
    ELSE LET newest == CHOOSE o \in ids :
                          \A q \in ids : orders[q].created_at <= orders[o].created_at
         IN <<newest>> \o SortNewestFirst(ids \ {newest})

\* count_documents, then find, sort, skip and limit.
list_orders_raw(matching, page, page_size) ==
    LET sorted == SortNewestFirst(matching)
        first == (page - 1) * page_size + 1
        lastix == IF page * page_size < Len(sorted) THEN page * page_size ELSE Len(sorted)
    IN [items |-> IF first > lastix THEN <<>> ELSE SubSeq(sorted, first, lastix),
        total |-> Cardinality(matching)]

\* The $or of the text search; when it has no clause, no condition is added.
TextClauses(text) ==
    LET table_ids_for_text == {t \in DOMAIN TableNames : RegexSearch(text, TableNames[t])}
        by_id == IF IsValidOid(text) THEN {o \in Existing : o = OidOrders[text[2]]} ELSE {}
        by_table == {o \in Existing : orders[o].table_id \in table_ids_for_text}
    IN IF ~IsValidOid(text) /\ table_ids_for_text = {} THEN Existing
       ELSE by_id \cup by_table

list_orders_service(scope, page, page_size, from_date, to_date, biller_id, text) ==
    IF biller_id # "None" /\ biller_id \notin ValidUserOids
    THEN [items |-> <<>>, total |-> 0]
    ELSE list_orders_raw(
            {o \in Existing :
                /\ orders[o].status \in build_status_filter(scope)
                /\ (from_date # NoDate => orders[o].created_at >= from_date)
                /\ (to_date # NoDate => orders[o].created_at <= to_date)
                /\ (biller_id # "None" => orders[o].created_by = biller_id)
                /\ (text # <<>> => o \in TextClauses(text))},
            page, page_size)

list_orders_keeps_biller_id(role, scope, page, page_size, from_day, to_day, biller_id) ==
    LET from_dt == IF from_day # NoDate THEN DayStart(from_day) ELSE DayStart(Today)
        to_dt == IF to_day # NoDate THEN DayEnd(to_day) ELSE DayEnd(Today)
    IN IF from_dt > to_dt
       THEN [error |-> 400]
       ELSE list_orders_service(scope, page, page_size, from_dt, to_dt, biller_id, <<>>)

\* GET /orders: the route drops biller_id for a caller who is not an admin
\* and never passes a text.
list_orders(role, scope, page, page_size, from_day, to_day, biller_id) ==
    LET effective_biller_id == IF role # "admin" THEN "None" ELSE biller_id
        from_dt == IF from_day # NoDate THEN DayStart(from_day) ELSE DayStart(Today)
        to_dt == IF to_day # NoDate THEN DayEnd(to_day) ELSE DayEnd(Today)
    IN IF from_dt > to_dt
       THEN [error |-> 400]
       ELSE list_orders_service(scope, page, page_size, from_dt, to_dt,
                                effective_biller_id, <<>>)

\* The order stores that are listed: orders of two billers at two tables,
\* created yesterday and today.
ListedOrder(table_id, user_id, now, status) ==
    LET order == CASE status = "billed" -> BilledOrder
                   [] status = "closed" -> ClosedOrder
                   [] status = "cancelled" ->
                        [CancelledOrder EXCEPT !.cancelled_by_user_id = user_id]
                   [] OTHER -> NewOrder(table_id, user_id, now)
    IN [order EXCEPT !.table_id = table_id, !.created_by = user_id, !.created_at = now]

ListStores ==
    {<<>>,
     <<ListedOrder("t1", "u1", 21, "open")>>,
     <<ListedOrder("t1", "u1", 11, "closed"), ListedOrder("t2", "u2", 21, "open")>>,
     <<ListedOrder("t1", "u1", 21, "closed"), ListedOrder("t2", "u2", 22, "cancelled"),
       ListedOrder("t1", "u2", 23, "billed")>>}

Scopes == {"running", "all"}
PageSizes == {1, 20}
DayInputs == {NoDate, 1}
BillerInputs == {"None", "u1", "u2", "bad"}
Texts ==
    {<<>>, <<"a", "t">>, <<"A", "R">>, <<"z">>, <<".">>, <<"oid", "1">>, <<"oid", "9">>}
ListRoles == {"admin", "biller"}

NoListCall ==
    [op |-> "list", returned |-> FALSE, role |-> "none", scope |-> "all",
     page_size |-> 1, from_day |-> NoDate, to_day |-> NoDate,
     biller_id |-> "None", text |-> <<>>, result |-> [items |-> <<>>, total |-> 0]]

InitList ==
    /\ menu = Menu
    /\ pubsub = NoPublisher
    /\ orders \in ListStores
    /\ tables = [t \in Tables |-> [status |-> "available", current_order_id |-> NoOrder]]
    /\ locks = {}
    /\ req = AllIdle
    /\ ncalls = 0
    /\ last = NoListCall

\* A call of the service with a text, as the projector is specified.
list_orders_service_call(scope, page_size, biller_id, text) ==
    /\ ~last.returned
    /\ last' = [NoListCall EXCEPT
                    !.op = "list_service", !.returned = TRUE, !.scope = scope,
                    !.page_size = page_size, !.biller_id = biller_id, !.text = text,
                    !.result = list_orders_service(scope, 1, page_size, NoDate, NoDate,
                                                   biller_id, text)]
    /\ UNCHANGED <<pubsub, menu, orders, tables, locks, req, ncalls>>

\* A request to the route.
list_orders_call(role, scope, page_size, from_day, to_day, biller_id) ==
    /\ ~last.returned
    /\ last' = [NoListCall EXCEPT
                    !.op = "list_route", !.returned = TRUE, !.role = role,
                    !.scope = scope, !.page_size = page_size,
                    !.from_day = from_day, !.to_day = to_day,
                    !.biller_id = biller_id,
                    !.result = list_orders(role, scope, 1, page_size, from_day, to_day,
                                           biller_id)]
    /\ UNCHANGED <<pubsub, menu, orders, tables, locks, req, ncalls>>

NextList ==
    \/ \E sc \in Scopes, ps \in PageSizes, b \in BillerInputs, t \in Texts :
            list_orders_service_call(sc, ps, b, t)
    \/ \E r \in ListRoles, sc \in Scopes, ps \in PageSizes, f \in DayInputs,
            t \in DayInputs \cup {Today}, b \in BillerInputs :
            list_orders_call(r, sc, ps, f, t, b)

SpecList == InitList /\ [][NextList]_vars

(***************************** reports ***************************************)
\* A date argument: "today", an ISO date of yesterday, or text that is no date.
DateInputs == {"today", "d1", "garbage"}

\* The day whose window [start, end) is reported; what does not parse is today.
get_date_range(date) == IF date = "d1" THEN 1 ELSE Today

InWindow(payment, day) ==
    payment.paid_at >= DayStart(day) /\ payment.paid_at < DayStart(day + 1)

\* $unwind, $match and $sum over the payments of one order.
RECURSIVE SumInWindow(_, _, _)
SumInWindow(payments, day, methods) ==
    IF payments = <<>> THEN 0
    ELSE (IF InWindow(payments[1], day) /\ payments[1].method \in methods
          THEN payments[1].amount ELSE 0)
         + SumInWindow(Tail(payments), day, methods)

RECURSIVE SumOrders(_, _, _)
SumOrders(ids, day, methods) ==
    IF ids = {} THEN 0
    ELSE LET o == CHOOSE x \in ids : TRUE
         IN SumInWindow(orders[o].payments, day, methods)
            + SumOrders(ids \ {o}, day, methods)

MethodsInWindow(ids, day) ==
    {orders[o].payments[i].method :
        <<o, i>> \in {x \in ids \X (1..3) :
                        /\ x[2] <= Len(orders[x[1]].payments)
                        /\ InWindow(orders[x[1]].payments[x[2]], day)}}

AllMethods == {"cash", "card"}

ZeroSummary ==
    [total_sales |-> 0, running_tables_count |-> 0,
     payment_mode_breakdown |-> [m \in {} |-> 0]]

\* db: whether mongo.db is there.
get_admin_summary(date, db) ==
    IF ~db THEN ZeroSummary
    ELSE LET day == get_date_range(date)
         IN [total_sales |-> Round2(SumOrders(Existing, day, AllMethods)),
             running_tables_count |->
                Cardinality({o \in Existing : orders[o].status \in RUNNING}),
             payment_mode_breakdown |->
                [m \in MethodsInWindow(Existing, day) |->
                    Round2(SumOrders(Existing, day, {m}))]]

\* The orders that have a payment in the window.
PaidInWindow(day) ==
    {o \in Existing : \E i \in 1..Len(orders[o].payments) :
                          InWindow(orders[o].payments[i], day)}

CountInWindow(o, day) ==
    Cardinality({i \in 1..Len(orders[o].payments) : InWindow(orders[o].payments[i], day)})

RECURSIVE SumCounts(_, _)
SumCounts(ids, day) ==
    IF ids = {} THEN 0
    ELSE LET o == CHOOSE x \in ids : TRUE
         IN CountInWindow(o, day) + SumCounts(ids \ {o}, day)

get_biller_performance_one_level(date, db) ==
    IF ~db THEN [b \in {} |-> 0]
    ELSE LET day == get_date_range(date)
             mine(b) == {o \in PaidInWindow(day) : orders[o].created_by = b}
         IN [b \in {orders[o].created_by : o \in PaidInWindow(day)} |->
                [total_sales |-> Round2(SumOrders(mine(b), day, AllMethods)),
                 orders_count |-> SumCounts(mine(b), day)]]

\* One row per biller: the first $group makes one row per (biller, order),
\* the second adds these up and counts them.
get_biller_performance(date, db) ==
    IF ~db THEN [b \in {} |-> 0]
    ELSE LET day == get_date_range(date)
             mine(b) == {o \in PaidInWindow(day) : orders[o].created_by = b}
         IN [b \in {orders[o].created_by : o \in PaidInWindow(day)} |->
                [total_sales |-> Round2(SumOrders(mine(b), day, AllMethods)),
                 orders_count |-> Cardinality(mine(b))]]

\* The orders that are reported on: paid in two installments by two methods,
\* cancelled after its payment, paid with amounts below a hundredth, paid
\* yesterday, and still running.
Paid(amount, method, now) == [amount |-> amount, method |-> method, paid_at |-> now]

ReportedOrders ==
    <<[ListedOrder("t1", "u1", 21, "closed") EXCEPT
            !.payments = <<Paid(10, "cash", 22), Paid(10, "card", 22)>>],
      [ListedOrder("t2", "u1", 21, "cancelled") EXCEPT
            !.payments = <<Paid(20, "cash", 22)>>],
      [ListedOrder("t1", "u2", 23, "closed") EXCEPT
            !.payments = <<Paid(4, "cash", 24), Paid(4, "card", 24), Paid(20, "cash", 24)>>],
      [ListedOrder("t2", "u1", 11, "closed") EXCEPT
            !.payments = <<Paid(20, "cash", 12)>>],
      ListedOrder("t2", "u2", 25, "billed")>>

ReportStores ==
    {<<>>} \cup {<<ReportedOrders[i]>> : i \in 1..5}
           \cup {<<ReportedOrders[x[1]], ReportedOrders[x[2]]>> :
                    x \in {y \in (1..5) \X (1..5) : y[1] < y[2]}}

NoReportCall ==
    [op |-> "report", returned |-> FALSE, date |-> "today", db |-> TRUE,
     result |-> ZeroSummary]

InitReports ==
    /\ menu = Menu
    /\ pubsub = NoPublisher
    /\ orders \in ReportStores
    /\ tables = [t \in Tables |-> [status |-> "available", current_order_id |-> NoOrder]]
    /\ locks = {}
    /\ req = AllIdle
    /\ ncalls = 0
    /\ last = NoReportCall

get_admin_summary_call(date, db) ==
    /\ ~last.returned
    /\ last' = [op |-> "summary", returned |-> TRUE, date |-> date, db |-> db,
                result |-> get_admin_summary(date, db)]
    /\ UNCHANGED <<pubsub, menu, orders, tables, locks, req, ncalls>>

get_biller_performance_call(date, db) ==
    /\ ~last.returned
    /\ last' = [op |-> "performance", returned |-> TRUE, date |-> date, db |-> db,
                result |-> get_biller_performance(date, db)]
    /\ UNCHANGED <<pubsub, menu, orders, tables, locks, req, ncalls>>

NextReports ==
    \/ \E d \in DateInputs, db \in BOOLEAN : get_admin_summary_call(d, db)
    \/ \E d \in DateInputs, db \in BOOLEAN : get_biller_performance_call(d, db)

SpecReports == InitReports /\ [][NextReports]_vars

(***************************** properties ************************************)
IsPrefix(s, t) == Len(s) <= Len(t) /\ \A i \in 1..Len(s) : s[i] = t[i]

Quiescent == \A p \in Procs : req[p].pc = "idle"

RunningOn(t) ==
    {o \in Existing : orders[o].table_id = t /\ orders[o].status \in RUNNING}

\* C1: at no time do two orders with status open, kot_printed or billed
\* exist for one table, so concurrent open_order calls on a table create one
\* order between them.
C1_OneRunningOrderPerTable ==
    \A t \in Tables : Cardinality(RunningOn(t)) <= 1

\* C2: a table's current_order_id is empty or names an order of that table
\* whose status is open, kot_printed or billed.  Stated for the states in
\* which no request is in flight, where no half-done update can excuse it.
C2_CurrentOrderIsRunning ==
    Quiescent =>
        \A t \in Tables :
            \/ tables[t].current_order_id = NoOrder
            \/ tables[t].current_order_id \in RunningOn(t)

\* C3: when a process_payment call that passed its checks returns, the order
\* is closed, the table is available and the table's current_order_id is
\* empty.
C3_PaymentClosesAndClears ==
    [][\A p \in Procs :
          (req[p].pc = "pay_table" /\ req'[p].pc = "idle") =>
              /\ orders'[req[p].order].status = "closed"
              /\ tables'[req[p].table].status = "available"
              /\ tables'[req[p].table].current_order_id = NoOrder]_vars

\* C4: once an order's stored status is closed or cancelled, no step changes
\* it.
C4_TerminalStatusFinal ==
    [][\A o \in Existing :
          orders[o].status \in {"closed", "cancelled"} =>
              orders'[o].status = orders[o].status]_vars

\* C5: with the lock backend answering and no key lost to its TTL, at most
\* one print_kot request per order is past acquire_lock; a print_kot call
\* that finds the key set is answered 429, and that step leaves the order
\* store and the lock store as they were.
InPrint(p, kind) ==
    req[p].op = kind /\ req[p].pc \in {"print_read", "print_write", "print_release"}

Holders(kind, o) ==
    {p \in Procs : InPrint(p, kind) /\ req[p].order = o /\ req[p].lk = "real"}

C5_KotLockExclusive ==
    /\ [](\A o \in Existing : Cardinality(Holders("kot", o)) <= 1)
    /\ [][\A p \in Procs, o \in Existing :
            /\ (print_kot_acquire(p, o, FALSE) /\ Holders("kot", o) # {}) =>
                  /\ last' = Res("kot", o, 429, "already in progress")
                  /\ req'[p].pc = "idle"
            /\ (print_kot_acquire(p, o, FALSE) /\ req'[p].pc = "idle") =>
                  /\ orders' = orders
                  /\ locks' = locks
                  /\ Holders("kot", o)' = Holders("kot", o)]_vars

C5_Witness ==
    /\ last = Res("kot", 1, 429, "already in progress")
    /\ \E q \in Holders("kot", 1) : req[q].pc = "print_release" /\ req[q].res.code = 200
    /\ Len(orders[1].kot_prints) = 1
    /\ orders[1].status = "kot_printed"

\* C6: process_payment on an order that is not billed is answered 400
\* "Order must be billed", and on a billed order with payments summing to
\* less than grand_total 400 "less than grand total"; either way the order
\* store and the tables are unchanged and nothing is left to run.
C6_PaymentGuard ==
    [][\A p \in Procs, o \in Existing, b \in PayBatches :
          process_payment_read(p, o, b) =>
              /\ orders[o].status # "billed" =>
                    /\ last' = Res("pay", o, 400, "Order must be billed")
                    /\ req'[p].pc = "idle"
                    /\ orders' = orders /\ tables' = tables
              /\ (orders[o].status = "billed"
                    /\ SumSeq(Payments(b, p)) < orders[o].totals.grand_total) =>
                    /\ last' = Res("pay", o, 400, "less than grand total")
                    /\ req'[p].pc = "idle"
                    /\ orders' = orders /\ tables' = tables]_vars

C6_Witness ==
    /\ last = Res("pay", 1, 400, "less than grand total")
    /\ orders[1].status = "billed"
    /\ orders[1].payments = <<>>
    /\ orders[1].totals.grand_total > 0

\* C7 as claimed: every cancel_order (with a reason given) by a biller who
\* did not create the order is answered 403.
C7_Original ==
    [][\A p \in Procs, o \in Existing, u \in Billers, r \in Reasons :
          (cancel_order_read(p, o, u, r) /\ Strip(r) # ""
                /\ orders[o].created_by # u) =>
              last' = Res("cancel", o, 403, "no permission")]_vars

\* C7: cancel_order with a non-blank reason on an order that is not already
\* cancelled is answered 403 when the actor is a biller who did not create
\* the order, and leaves the order store and the tables unchanged; by the
\* creating biller or by an admin it is accepted on a running order, its
\* write stores status cancelled with cancelled_by_role the actor's role,
\* and it is answered 200.
C7_CancelPermission ==
    [][\A p \in Procs :
        /\ \A o \in Existing, u \in UserIds, r \in Reasons :
            (cancel_order_read(p, o, u, r) /\ Strip(r) # ""
                    /\ orders[o].status # "cancelled") =>
                IF Users[u] = "biller" /\ orders[o].created_by # u
                THEN /\ last' = Res("cancel", o, 403, "no permission")
                     /\ req'[p].pc = "idle"
                     /\ orders' = orders /\ tables' = tables
                ELSE orders[o].status \in RUNNING =>
                     /\ req'[p].pc = "cancel_write"
                     /\ req'[p].order = o /\ req'[p].actor = u
        /\ cancel_order_write(p) =>
                /\ orders'[req[p].order].status = "cancelled"
                /\ orders'[req[p].order].cancelled_by_role = Users[req[p].actor]
        /\ (req[p].op = "cancel" /\ req[p].pc # "idle" /\ req'[p].pc = "idle") =>
                last' = Res("cancel", req[p].order, 200, "ok")]_vars

C7_Witness ==
    \E o1, o2 \in Existing :
        /\ orders[o1].status = "cancelled"
        /\ orders[o1].cancelled_by_role = "biller"
        /\ orders[o1].cancelled_by_user_id = orders[o1].created_by
        /\ orders[o2].status \in RUNNING
        /\ last = Res("cancel", o2, 403, "no permission")

\* C8: in every step the payments list an order had is a prefix of the one
\* it has afterwards.
C8_PaymentsAppendOnly ==
    [][\A o \in Existing :
          IsPrefix(orders[o].payments, orders'[o].payments)]_vars

\* C9: in every step the kot_prints and bill_prints lists an order had are
\* prefixes of the ones it has afterwards, so the entry of every print that
\* succeeded stays.
C9_PrintsAppendOnly ==
    [][\A o \in Existing :
          /\ IsPrefix(orders[o].kot_prints, orders'[o].kot_prints)
          /\ IsPrefix(orders[o].bill_prints, orders'[o].bill_prints)]_vars

\* C10: open_order on a table that has an order in status open, kot_printed
\* or billed returns such an order of that table at once and changes neither
\* the order store nor the tables; called right after the open_order that
\* created the table's first order, it returns that order's id again.
C10_OpenIdempotent ==
    [][\A p \in Procs, t \in Tables, u \in Openers :
          (open_order_read(p, t, u) /\ RunningOn(t) # {}) =>
              /\ last'.op = "open" /\ last'.code = 201
              /\ last'.order \in RunningOn(t)
              /\ req'[p].pc = "idle"
              /\ orders' = orders /\ tables' = tables
              /\ (Quiescent /\ Len(orders) = 1
                    /\ last = Res("open", 1, 201, "created")) =>
                        last'.order = last.order]_vars

C10_Witness ==
    /\ last = Res("open", 1, 201, "existing")
    /\ orders[1].status = "billed"
    /\ Len(orders) = 1
    /\ tables["t1"].current_order_id = 1

CancelFields ==
    {"cancelled_at", "cancelled_by_user_id", "cancelled_by_role", "cancel_reason"}

Alone(p) == \A q \in Procs \ {p} : req[q].pc = "idle"

\* C11: a print_kot or print_bill request that, with no other request in
\* flight, reads its order in status paid, closed or cancelled is rejected:
\* it goes on to release its lock with an error response and never to the
\* write of status, kot_prints or bill_prints, and the read itself leaves the
\* order store unchanged.
C11_PrintNeedsRunningOrder ==
    [][\A p \in Procs :
          ((print_kot_read(p) \/ print_bill_read(p))
                /\ Alone(p)
                /\ req[p].order \in Existing
                /\ orders[req[p].order].status \in {"paid", "closed", "cancelled"}) =>
              /\ req'[p].pc = "print_release"
              /\ req'[p].res.code # 200
              /\ orders' = orders]_vars

\* C12: cancel_order with a reason given, called while no other request is
\* in flight on an order whose status is paid or closed, is rejected: it is
\* answered at once with an error, and the order store, so the order's
\* status and cancellation fields, stays as it was.
C12_CancelNeedsRunningOrder ==
    [][\A p \in Procs, o \in Existing, u \in UserIds, r \in Reasons :
          (cancel_order_read(p, o, u, r) /\ Strip(r) # "" /\ Alone(p)
                /\ orders[o].status \in {"paid", "closed"}) =>
              /\ req'[p].pc = "idle"
              /\ last'.op = "cancel" /\ last'.code # 200
              /\ orders' = orders]_vars

\* C13: in every state with no request in flight the four cancellation
\* fields of an order whose status is not cancelled are all None, and no
\* step changes a cancellation field that is set.
C13_CancelFieldsFollowStatus ==
    /\ [](Quiescent =>
            \A o \in Existing :
                orders[o].status # "cancelled" =>
                    \A f \in CancelFields : orders[o][f] = "None")
    /\ [][\A o \in Existing, f \in CancelFields :
            orders[o][f] # "None" => orders'[o][f] = orders[o][f]]_vars

\* C14: the write of an accepted cancel_order changes, of the order, only
\* status and the four cancellation fields: items, totals, kot_prints,
\* bill_prints, payments and every other field are what they were, and no
\* other order changes.
C14_CancelFrame ==
    [][\A p \in Procs :
          cancel_order_write(p) =>
              /\ \A f \in DOMAIN orders[req[p].order] \ (CancelFields \cup {"status"}) :
                    orders'[req[p].order][f] = orders[req[p].order][f]
              /\ \A o \in Existing \ {req[p].order} : orders'[o] = orders[o]
              /\ Len(orders') = Len(orders)]_vars

C14_Witness ==
    /\ last = Res("cancel", 1, 200, "ok")
    /\ orders[1].status = "cancelled"
    /\ orders[1].cancel_reason = "customer left"
    /\ orders[1].items # <<>>
    /\ orders[1].totals.grand_total > 0
    /\ orders[1].bill_prints # <<>>

\* C15: an accepted cancel_order that finds the table's current_order_id
\* equal to the cancelled order's id leaves the table available with an
\* empty current_order_id; one that finds it different leaves the tables
\* unchanged.
C15_CancelClearsOwnTable ==
    [][\A p \in Procs :
          /\ cancel_order_clear(p) =>
                tables'[req[p].table] =
                    [status |-> "available", current_order_id |-> NoOrder]
          /\ (cancel_order_table(p)
                    /\ tables[req[p].table].current_order_id # req[p].order) =>
                tables' = tables]_vars

\* x is a whole number of hundredths, at most half a hundredth from exact.
Near(x, exact) ==
    /\ x % 10 = 0
    /\ 2 * (x - exact) <= 10
    /\ 2 * (exact - x) <= 10

\* C16: in every state, between and after interleaved add_order_item calls
\* too, the stored totals of every order are calculate_totals of its stored
\* items and stored discount: sub_total is the sum of price times qty over
\* the stored lines to 2 decimals, and grand_total is that sum plus tax less
\* the discount to 2 decimals.
C16_TotalsMatchItems ==
    \A o \in Existing :
        LET items == orders[o].items
            totals == orders[o].totals
        IN /\ totals = calculate_totals(items, totals.discount_total)
           /\ Near(totals.sub_total, SumLines(items))
           /\ Near(totals.tax_total, SumLines(items) * TAX_RATE)
           /\ Near(totals.grand_total,
                   SumLines(items) + SumLines(items) * TAX_RATE - totals.discount_total)

C16_Witness ==
    \E p \in Procs :
        /\ req[p].pc = "add_write" /\ req[p].order = 1
        /\ last = Res("add", 1, 200, "ok")
        /\ Len(orders[1].items) = 1
        /\ Len(req[p].upd.items) = 1
        /\ req[p].upd.items[1].item_id # orders[1].items[1].item_id
        /\ req[p].upd.totals # orders[1].totals

HasLine(items, item_id) == IndexOf(items, item_id) # 0

\* C18: in every state the items list of every order has at most one line
\* per item_id and every line has qty > 0; an accepted add_order_item whose
\* resulting quantity is zero or less is about to store the list without
\* that line.
C18_LinesDistinctAndPositive ==
    /\ [](\A o \in Existing :
            \A i, j \in 1..Len(orders[o].items) :
                /\ orders[o].items[i].qty > 0
                /\ orders[o].items[i].item_id = orders[o].items[j].item_id => i = j)
    /\ [][\A p \in Procs, o \in Existing, x \in ItemIds, d \in ItemDeltas :
            (add_order_item_read(p, o, x, d) /\ req'[p].pc = "add_write"
                /\ HasLine(orders[o].items, x)
                /\ orders[o].items[IndexOf(orders[o].items, x)].qty + d <= 0) =>
              /\ ~HasLine(req'[p].upd.items, x)
              /\ Len(req'[p].upd.items) = Len(orders[o].items) - 1]_vars

C18_Witness ==
    \E p \in Procs :
        /\ req[p].pc = "add_write" /\ req[p].order = 1
        /\ Alone(p)
        /\ Len(orders[1].items) = 2
        /\ orders[1].items[1].qty = 1
        /\ req[p].upd.items = Tail(orders[1].items)

\* C19: while an add_order_item +n of an active menu item X that the order
\* does not hold is waiting to write what it made of the items stored now,
\* with no other request in flight, the add_order_item -n of X that follows
\* it gives back the items and the totals that are stored now, before the
\* two calls: X is gone again.
C19_AddThenRemoveRestores ==
    \A p \in Procs :
        (req[p].pc = "add_write" /\ Alone(p)
            /\ Len(req[p].upd.items) = Len(orders[req[p].order].items) + 1
            /\ IsPrefix(orders[req[p].order].items, req[p].upd.items)) =>
          LET before == orders[req[p].order]
              added == req[p].upd
              X == added.items[Len(added.items)]
              items == ApplyItemUpdate(added.items, X.item_id, 0 - X.qty)
              totals == calculate_totals(items, added.totals.discount_total)
          IN /\ ~HasLine(before.items, X.item_id)
             /\ X.qty > 0
             /\ get_item_by_id(X.item_id) # NoItem
             /\ ~HasLine(items, X.item_id)
             /\ items = before.items
             /\ totals = before.totals

C19_Witness ==
    \E p \in Procs :
        /\ req[p].pc = "add_write" /\ req[p].order = 1
        /\ Alone(p)
        /\ last = Res("add", 1, 200, "ok")
        /\ Len(orders[1].items) = 2
        /\ orders[1].items[2].qty = 2
        /\ req[p].upd.items = <<orders[1].items[1]>>
        /\ req[p].upd.totals = calculate_totals(<<orders[1].items[1]>>, 0)

\* C20: add_order_item is answered with an error, and leaves the order
\* store unchanged, in each of these cases, tested in this order: the order
\* is paid, closed or cancelled (400 "Cannot modify"); the menu item does
\* not exist (404); the menu item is not active (400); the order has no line
\* of the item and qty_delta is zero or less (400).
C20_AddRejected ==
    [][\A p \in Procs, o \in Existing, x \in ItemIds, d \in ItemDeltas :
          add_order_item_read(p, o, x, d) =>
            LET Rejected(code, detail) ==
                    /\ last' = Res("add", o, code, detail)
                    /\ req'[p].pc = "idle"
                    /\ orders' = orders
            IN IF orders[o].status \in {"paid", "closed", "cancelled"}
               THEN Rejected(400, "Cannot modify")
               ELSE IF x \notin DOMAIN menu
               THEN Rejected(404, "Menu item not found")
               ELSE IF ~menu[x].is_active
               THEN Rejected(400, "Menu item is not active")
               ELSE (~HasLine(orders[o].items, x) /\ d <= 0) =>
                        Rejected(400, "zero or negative quantity")]_vars

C20_Witness ==
    /\ last = Res("add", 1, 400, "zero or negative quantity")
    /\ orders[1].status = "billed"
    /\ Len(orders[1].items) = 1
    /\ orders[1].items[1].qty = 2

\* C21 as claimed: in every step, every line an order has keeps its name
\* and price snapshot as long as the order has a line of that item_id.
C21_Original ==
    [][\A o \in Existing :
          \A i \in 1..Len(orders[o].items) :
              LET line == orders[o].items[i]
                  j == IndexOf(orders'[o].items, line.item_id)
              IN j # 0 =>
                    /\ orders'[o].items[j].name_snapshot = line.name_snapshot
                    /\ orders'[o].items[j].price_snapshot = line.price_snapshot]_vars

\* C21: in the list an accepted add_order_item is about to store, every line
\* of the order it read that is still there has the name and price snapshot
\* it had, whatever the menu says now; the lines of other items are as they
\* were, and the totals are computed from the snapshot prices.  The write
\* stores that list and those totals.
C21_SnapshotsKept ==
    [][\A p \in Procs :
        /\ \A o \in Existing, x \in ItemIds, d \in ItemDeltas :
            (add_order_item_read(p, o, x, d) /\ req'[p].pc = "add_write") =>
                /\ \A i \in 1..Len(orders[o].items) :
                      LET line == orders[o].items[i]
                          j == IndexOf(req'[p].upd.items, line.item_id)
                      IN /\ line.item_id # x =>
                                j # 0 /\ req'[p].upd.items[j] = line
                         /\ j # 0 =>
                                /\ req'[p].upd.items[j].name_snapshot = line.name_snapshot
                                /\ req'[p].upd.items[j].price_snapshot = line.price_snapshot
                /\ Near(req'[p].upd.totals.sub_total, SumLines(req'[p].upd.items))
        /\ add_order_item_write(p) =>
                /\ orders'[req[p].order].items = req[p].upd.items
                /\ orders'[req[p].order].totals = req[p].upd.totals]_vars

C21_Witness ==
    \E p \in Procs :
        /\ req[p].pc = "add_write" /\ req[p].order = 1
        /\ Alone(p)
        /\ menu["A"].price = 30 /\ menu["A"].name = "chai"
        /\ orders[1].items = <<[item_id |-> "A", name_snapshot |-> "tea",
                                 price_snapshot |-> 20, qty |-> 1, notes |-> "None"]>>
        /\ req[p].upd.items = <<[orders[1].items[1] EXCEPT !.qty = 2]>>
        /\ req[p].upd.totals.grand_total = 40

\* C22: a print_kot that reads its order open is about to store status
\* kot_printed, one that reads it kot_printed or billed the status it read,
\* and no step takes the stored status of an order from billed to
\* kot_printed.
C22_KotKeepsBilled ==
    [][/\ \A p \in Procs :
            (print_kot_read(p) /\ req'[p].pc = "print_write") =>
                req'[p].upd.status =
                    IF orders[req[p].order].status = "open" THEN "kot_printed"
                    ELSE orders[req[p].order].status
       /\ \A o \in Existing :
            orders[o].status = "billed" => orders'[o].status # "kot_printed"]_vars

\* C23: a print_bill that reads its order in status open, kot_printed or
\* billed is about to store the bill_prints it read with one more entry,
\* whose totals snapshot is the totals it read, and status billed; its write
\* stores that list and that status and leaves every other field of the
\* order, items, totals and kot_prints among them, and every other order as
\* it was.
C23_BillAppendsAndBills ==
    [][\A p \in Procs :
        /\ (print_bill_read(p) /\ req[p].order \in Existing
                /\ orders[req[p].order].status \in RUNNING
                /\ orders[req[p].order].items # <<>>) =>
              LET order == orders[req[p].order]
                  new == req'[p].upd.bill_prints
              IN /\ req'[p].pc = "print_write"
                 /\ Len(new) = Len(order.bill_prints) + 1
                 /\ IsPrefix(order.bill_prints, new)
                 /\ new[Len(new)].totals_snapshot = order.totals
                 /\ req'[p].upd.status = "billed"
        /\ print_bill_write(p) =>
              /\ orders'[req[p].order].bill_prints = req[p].upd.bill_prints
              /\ orders'[req[p].order].status = "billed"
              /\ \A f \in DOMAIN orders[req[p].order] \ {"bill_prints", "status"} :
                    orders'[req[p].order][f] = orders[req[p].order][f]
              /\ \A o \in Existing \ {req[p].order} : orders'[o] = orders[o]
              /\ req'[p].res = Res("bill", req[p].order, 200, "ok")]_vars

C23_Witness ==
    /\ Quiescent
    /\ last = Res("bill", 1, 200, "ok")
    /\ orders[1].status = "billed"
    /\ Len(orders[1].bill_prints) = 2
    /\ orders[1].bill_prints[1].totals_snapshot = orders[1].totals
    /\ orders[1].bill_prints[2].totals_snapshot = orders[1].totals
    /\ orders[1].totals.grand_total > 0

\* C24: a print_kot or print_bill that reads its order without items goes
\* on to release its lock and answers 400, and neither step changes the order
\* store; in every state every entry of every kot_prints list has a
\* non-empty items snapshot.
C24_PrintNeedsItems ==
    /\ [](\A o \in Existing :
            \A i \in 1..Len(orders[o].kot_prints) :
                orders[o].kot_prints[i].items_snapshot # <<>>)
    /\ [][\A p \in Procs :
            /\ ((print_kot_read(p) \/ print_bill_read(p))
                    /\ req[p].order \in Existing
                    /\ orders[req[p].order].items = <<>>) =>
                  /\ req'[p].pc = "print_release"
                  /\ req'[p].res = Res(req[p].op, req[p].order, 400, "no items")
                  /\ orders' = orders
            /\ (req[p].pc = "print_release" /\ req'[p].pc = "idle") =>
                  /\ last' = req[p].res
                  /\ orders' = orders]_vars

C24_Witness ==
    /\ last = Res("kot", 1, 400, "no items")
    /\ orders[1].items = <<>>
    /\ orders[1].status = "open"
    /\ orders[1].kot_prints = <<>>
    /\ locks = {}

\* C25 as claimed: when a print_kot or print_bill request that set its lock
\* key leaves, on whatever path, the key is gone.
C25_Original ==
    [][\A p \in Procs :
          (req[p].pc = "print_release" /\ req[p].lk = "real" /\ req'[p].pc = "idle") =>
              KeyOf(p) \notin locks']_vars

\* C25: every path of a print_kot or print_bill request that passed
\* acquire_lock ends in the release step; when the lock backend answers the
\* delete there, the key is gone afterwards, whether the request ends with
\* 200, 404, 400 or 500, and a print of that kind on that order that then
\* asks a backend that answers is not refused; when the delete fails the lock
\* store is left as it was.
C25_LockReleased ==
    [][\A p \in Procs :
        /\ (InPrint(p, req[p].op) /\ req'[p].pc = "idle") =>
              /\ req[p].pc = "print_release"
              /\ last' = req[p].res
              /\ \/ KeyOf(p) \notin locks'
                 \/ locks' = locks
        /\ (print_kot_release(p, FALSE) \/ print_bill_release(p, FALSE)) =>
              KeyOf(p) \notin locks'
        /\ (req[p].pc \in {"print_read", "print_write"} /\ req'[p].pc # req[p].pc) =>
              req'[p].pc \in {"print_write", "print_release"}
        /\ \A o \in Existing \cup {Len(orders) + 1} :
              /\ (print_kot_acquire(p, o, FALSE) /\ LockKey("kot", o) \notin locks) =>
                    req'[p].pc = "print_read"
              /\ (print_bill_acquire(p, o, FALSE) /\ LockKey("bill", o) \notin locks) =>
                    req'[p].pc = "print_read"]_vars

C25_Witness ==
    /\ Quiescent
    /\ locks = {}
    /\ last = Res("bill", 1, 500, "Failed to update order")
    /\ orders[1].status = "billed"
    /\ Len(orders[1].bill_prints) = 1

\* C26: when the lock backend is absent or its call raises, the acquire
\* step of print_kot and print_bill lets the request through to its read,
\* whatever keys are set, and sends no response.
C26_FailOpen ==
    [][\A p \in Procs, o \in Existing \cup {Len(orders) + 1} :
          (print_kot_acquire(p, o, TRUE) \/ print_bill_acquire(p, o, TRUE)) =>
              /\ req'[p].pc = "print_read"
              /\ req'[p].lk = "failopen"
              /\ last' = last
              /\ locks' = locks]_vars

C26_Witness ==
    \E p, q \in Procs :
        /\ InPrint(p, "kot") /\ InPrint(q, "kot")
        /\ req[p].order = req[q].order
        /\ req[p].lk = "real" /\ req[q].lk = "failopen"
        /\ KeyOf(p) \in locks

\* C27: the first write of process_payment stores status paid and the
\* payments list the call built, the payments it read followed by the
\* submitted ones; when the call then stops, or its second write fails, the
\* order store is left as it is, and an order whose payments were all
\* written by this call is paid or closed with payments that cover its
\* grand_total.
C27_PaidSurvivesFailure ==
    [][\A p \in Procs :
        /\ process_payment_paid(p) =>
              /\ orders'[req[p].order].status = "paid"
              /\ orders'[req[p].order].payments = req[p].upd.payments
              /\ \E i \in 1..Len(req[p].upd.payments) :
                    req[p].upd.payments[i].paid_at = p
        /\ (process_payment_stop(p) \/ process_payment_closed_failed(p)) =>
              LET order == orders[req[p].order] IN
              /\ orders' = orders
              /\ (\A i \in 1..Len(order.payments) : order.payments[i].paid_at = p) =>
                    /\ order.status \in {"paid", "closed"}
                    /\ order.payments # <<>>
                    /\ SumSeq(order.payments) >= order.totals.grand_total]_vars

C27_Witness ==
    /\ Quiescent
    /\ orders[1].status = "paid"
    /\ orders[1].payments = Payments(<<10, 10>>, "p1")
    /\ tables["t1"] = [status |-> "occupied", current_order_id |-> 1]
    /\ last = Res("bill", 1, 200, "ok")
    /\ ncalls = MaxCalls - PayCalls + 1

\* C28: when a process_payment call that wrote status paid returns, the
\* stored status of its order is closed.
C28_PaidIsTransient ==
    [][\A p \in Procs :
          process_payment_table(p) =>
              orders'[req[p].order].status = "closed"]_vars

\* The class of the error taxonomy that a response belongs to; a re-cancel
\* is in the same class as the other operations that are not legal in the
\* order's status.
Taxonomy ==
    [d \in {"Order not found", "Table not found", "Menu item not found",
            "zero or negative quantity", "less than grand total",
            "reason is required", "Cannot modify", "Order must be billed",
            "already cancelled", "no permission", "already in progress"} |->
        CASE d \in {"Order not found", "Table not found", "Menu item not found"}
                -> "NotFound"
          [] d \in {"zero or negative quantity", "less than grand total",
                    "reason is required"}
                -> "InvalidInput"
          [] d \in {"Cannot modify", "Order must be billed", "already cancelled"}
                -> "InvalidState"
          [] d = "no permission" -> "Forbidden"
          [] OTHER -> "Busy"]

ErrorClass(res) ==
    IF res.detail \in DOMAIN Taxonomy THEN Taxonomy[res.detail] ELSE "None"

\* C29: two error responses of different taxonomy classes carry different
\* status codes.
C29_DistinctSignals ==
    [][(/\ ErrorClass(last) # "None"
        /\ ErrorClass(last') # "None"
        /\ ErrorClass(last) # ErrorClass(last')) =>
            last.code # last'.code]_vars

\* C30: update_table_service leaves the status and the current_order_id of
\* every table as they are.
C30_AdminEditKeepsOccupancy ==
    [][\A t \in AdminTableIds, d \in TableUpdates :
          update_table_service(t, d) => tables' = tables]_vars

\* C31: the step that ends a cancel_order_service call which has stored the
\* cancellation answers 200 with the order, leaves the order store as it is
\* and changes the table only by the clearing write, whatever the publisher
\* does; messages are delivered only by such a step, for an order whose
\* cancellation is stored, and only on channels that deliver.
C31_CancelIgnoresDelivery ==
    [][/\ \A p \in Procs :
            ((cancel_order_table(p) \/ cancel_order_clear(p)) /\ req'[p].pc = "idle") =>
                /\ last' = Res("cancel", req[p].order, 200, "ok")
                /\ orders' = orders
                /\ tables' = IF req[p].pc = "cancel_clear"
                             THEN update_table(req[p].table,
                                      [status |-> "available", current_order_id |-> NoOrder])
                             ELSE tables
                /\ orders[req[p].order].cancelled_at # "None"
                /\ pubsub'.client = pubsub.client /\ pubsub'.up = pubsub.up
                /\ Len(pubsub'.sent) = Len(pubsub.sent) + Cardinality(pubsub.up)
       /\ pubsub' # pubsub =>
            \E p \in Procs :
                /\ req[p].pc \in {"cancel_table", "cancel_clear"}
                /\ req'[p].pc = "idle"
                /\ pubsub.client
                /\ IsPrefix(pubsub.sent, pubsub'.sent)
                /\ \A i \in Len(pubsub.sent) + 1 .. Len(pubsub'.sent) :
                      /\ pubsub'.sent[i].channel \in pubsub.up
                      /\ pubsub'.sent[i].payload.order_id = req[p].order]_vars

C31_Witness ==
    /\ Quiescent
    /\ last = Res("cancel", 1, 200, "ok")
    /\ orders[1].status = "cancelled"
    /\ tables["t1"].status = "available"
    /\ pubsub.client /\ pubsub.up = {"pos:admin"}
    /\ Len(pubsub.sent) = 1
    /\ pubsub.sent[1].channel = "pos:admin"

\* text occurs in str, letter case aside.
ContainsText(text, str) ==
    \E i \in 1..(Len(str) + 1) :
        \A k \in 1..Len(text) :
            /\ i + k - 1 <= Len(str)
            /\ Lower(text[k]) = Lower(str[i + k - 1])

TextIsOrderId(text, o) == IsValidOid(text) /\ o = OidOrders[text[2]]

\* C32: list_orders_service with a non-empty text returns only orders whose
\* id is the text or whose table's name contains the text, letter case
\* aside; when no order has the text as its id and no table name contains
\* it, the result is empty with total 0.
C32_TextFilter ==
    (last.op = "list_service" /\ last.returned /\ last.text # <<>>) =>
        /\ \A i \in 1..Len(last.result.items) :
              LET o == last.result.items[i] IN
              \/ TextIsOrderId(last.text, o)
              \/ ContainsText(last.text, TableNames[orders[o].table_id])
        /\ (/\ \A o \in Existing : ~TextIsOrderId(last.text, o)
            /\ \A t \in DOMAIN TableNames : ~ContainsText(last.text, TableNames[t])) =>
              /\ last.result.items = <<>>
              /\ last.result.total = 0

\* C33: what the route returns to a caller who is not an admin is what it
\* returns to that caller for every other biller_id, the other parameters
\* and the order store being the same.
C33_BillerIdIgnored ==
    (last.op = "list_route" /\ last.returned /\ last.role # "admin") =>
        \A b \in BillerInputs :
            last.result = list_orders(last.role, last.scope, 1, last.page_size,
                                      last.from_day, last.to_day, b)

C33_Witness ==
    /\ last.op = "list_route" /\ last.returned
    /\ last.role = "biller" /\ last.biller_id = "u2"
    /\ last.result = [items |-> <<3, 2, 1>>, total |-> 3]
    /\ orders[1].created_by = "u1"

RECURSIVE SumValues(_)
SumValues(f) ==
    IF DOMAIN f = {} THEN 0
    ELSE LET m == CHOOSE x \in DOMAIN f : TRUE
         IN f[m] + SumValues([x \in DOMAIN f \ {m} |-> f[x]])

\* The payments of every order, whatever its status, that lie in the window.
PaymentsInWindow(day) ==
    {x \in Existing \X (1..3) :
        /\ x[2] <= Len(orders[x[1]].payments)
        /\ InWindow(orders[x[1]].payments[x[2]], day)}

\* C34: the breakdown of admin_summary has, for every method with
\* a payment in the window on an order of any status, the sum of these
\* payments to 2 decimals, and total_sales is the sum of the breakdown's
\* values.
C34_SummaryTotals ==
    (last.op = "summary" /\ last.returned /\ last.db) =>
        LET day == get_date_range(last.date)
            breakdown == last.result.payment_mode_breakdown
        IN /\ DOMAIN breakdown =
                {orders[x[1]].payments[x[2]].method : x \in PaymentsInWindow(day)}
           /\ \A m \in DOMAIN breakdown :
                Near(breakdown[m], SumOrders(Existing, day, {m}))
           /\ last.result.total_sales = SumValues(breakdown)

\* C35: biller_performance has one row for every biller who created an order
\* with a payment in the window; its total_sales is the sum of the payments
\* in the window on the orders that biller created, to 2 decimals, and its
\* orders_count is the number of these orders.
C35_BillerTotals ==
    (last.op = "performance" /\ last.returned /\ last.db) =>
        LET day == get_date_range(last.date)
            paid(b) == {o \in Existing :
                          /\ orders[o].created_by = b
                          /\ \E x \in PaymentsInWindow(day) : x[1] = o}
        IN /\ DOMAIN last.result = {b \in UserIds : paid(b) # {}}
           /\ \A b \in DOMAIN last.result :
                /\ Near(last.result[b].total_sales, SumOrders(paid(b), day, AllMethods))
                /\ last.result[b].orders_count = Cardinality(paid(b))

C35_Witness ==
    /\ last.op = "performance" /\ last.returned /\ last.db
    /\ Len(orders) = 2
    /\ Len(orders[1].payments) = 2 /\ Len(orders[2].payments) = 1
    /\ last.result = [u1 |-> [total_sales |-> 40, orders_count |-> 2]]

\* C36: in every state an order with status paid or closed has payments
\* whose amounts sum to at least its stored grand_total.
C36_PaidCoversTotal ==
    \A o \in Existing :
        orders[o].status \in {"paid", "closed"} =>
            SumSeq(orders[o].payments) >= orders[o].totals.grand_total

\* C37: when no call is under way, every table that has an order with status
\* open, kot_printed or billed has status occupied.
C37_RunningTableOccupied ==
    Quiescent =>
        \A t \in Tables : RunningOn(t) # {} => tables[t].status = "occupied"

\* The print requests of one kind on one order that set the lock key, whether
\* the key is still theirs or not.
Acquirers(kind, o) ==
    {p \in Procs : InPrint(p, kind) /\ req[p].order = o /\ req[p].lk \in {"real", "lapsed"}}

\* C38: of the print_kot requests on one order that set the lock key, and of
\* the print_bill requests likewise, at most one is between acquire_lock and
\* release_lock, and the release of a request whose key has run out leaves
\* the lock store as it is.
C38_OneHolderPastTTL ==
    /\ [](\A p \in Procs :
            InPrint(p, req[p].op) => Cardinality(Acquirers(req[p].op, req[p].order)) <= 1)
    /\ [][\A p \in Procs :
            ((print_kot_release(p, FALSE) \/ print_bill_release(p, FALSE))
                /\ req[p].lk = "lapsed") =>
                locks' = locks]_vars

\* C39: the write of add_order_item stores the items it built and the totals
\* of these items and leaves kot_prints, bill_prints, status and every other
\* field as stored; the write of print_kot or print_bill stores its list of
\* prints, with the new entry last, and its status and leaves items, totals
\* and every other field as stored. So whichever of two overlapping calls
\* writes last, the other's change is still there.
C39_AddAndPrintBothPersist ==
    [][\A p \in Procs :
        LET o == req[p].order IN
        /\ add_order_item_write(p) =>
              /\ orders'[o].items = req[p].upd.items
              /\ orders'[o].totals =
                    calculate_totals(req[p].upd.items, orders[o].totals.discount_total)
              /\ \A f \in DOMAIN orders[o] \ {"items", "totals"} :
                    orders'[o][f] = orders[o][f]
        /\ print_kot_write(p) =>
              /\ orders'[o].kot_prints = req[p].upd.kot_prints
              /\ orders'[o].kot_prints[Len(orders'[o].kot_prints)].printed_at = p
              /\ \A f \in DOMAIN orders[o] \ {"kot_prints", "status"} :
                    orders'[o][f] = orders[o][f]
        /\ print_bill_write(p) =>
              /\ orders'[o].bill_prints = req[p].upd.bill_prints
              /\ orders'[o].bill_prints[Len(orders'[o].bill_prints)].printed_at = p
              /\ \A f \in DOMAIN orders[o] \ {"bill_prints", "status"} :
                    orders'[o][f] = orders[o][f]]_vars

\* A print_kot that read the order with one tea, an add_order_item that
\* stored the second tea before the print wrote, and both are there.
C39_Witness ==
    /\ Quiescent
    /\ last = Res("kot", 1, 200, "ok")
    /\ Len(orders[1].kot_prints) = 1
    /\ Len(orders[1].items) = 1
    /\ orders[1].kot_prints[1].items_snapshot[1].qty = 1
    /\ orders[1].items[1].qty = 2
    /\ orders[1].totals.grand_total = 40
    /\ orders[1].status = "kot_printed"
    /\ orders[1].bill_prints = <<>>

=============================================================================
